---- MODULE Spec2Model ----
(***************************************************************************)
(* Model of core/state_processor.go: StateProcessor.Process and the two-   *)
(* phase account-abstraction (AA) transaction pipeline it drives.          *)
(*                                                                         *)
(* One behaviour is one invocation of Process on one block.  The block,    *)
(* the chain configuration and the block gas limit are drawn in Init; the  *)
(* results of the external call-frame invoker (ApplyMessage) are drawn     *)
(* when the frame is invoked.  `frames` is a history variable recording    *)
(* every call frame in invocation order.                                   *)
(***************************************************************************)
EXTENDS Integers, Sequences, FiniteSets, TLC

\* ------------------------------------------------------------------ bounds
MaxTxs == 2          \* transactions per block
MaxGasUnits == 9     \* largest block gas limit, in units of GasUnit
MaxAuthValue == 1    \* largest value of a field of an authorization tuple

\* --------------------------------------------------------- program constants
\* Mutant of AddressLength: no byte of the data is taken as the address prefix.
AddressLength_None == Len(<<>>)
AddressLength == 20          \* the 20-byte address prefix of paymaster/deployer data
AAFrameGasLimit == 100000    \* GasLimit of every synthetic AA message
GasUnit == AAFrameGasLimit \div 2       \* granularity of gas amounts in the model
LegacyTxGas == GasUnit                  \* tx.Gas() of the model's legacy transactions

\* common.Address: AddressLength bytes; the model's addresses differ in the last byte.
AddrOf(b) == [k \in 1..AddressLength |-> IF k = AddressLength THEN b ELSE 0]
ZeroAddress == AddrOf(0)          \* common.Address{}
SenderAddress == AddrOf(1)        \* *aatx.Sender
SponsorAddress == AddrOf(2)
DeployerAddress == AddrOf(3)
SystemAddress == AddrOf(254)      \* params.SystemAddress
BeaconRootsStorageAddress == AddrOf(11)
NilAddress == <<>>                \* Message.To == nil

\* Go slice expression s[lo:hi] (1-based SubSeq of the bytes lo+1..hi)
Slice(s, lo, hi) == SubSeq(s, lo + 1, hi)

ErrGasLimitReached == "gas limit reached"
ErrInvoker == "call frame rejected"
ErrPaymaster == "paymaster validation failed - invalid transaction"
ErrWithdrawals == "withdrawals before shanghai"
ErrMessage == "invalid sender"
NoError == "nil"

ReceiptStatusFailed == 0          \* types.ReceiptStatusFailed
ReceiptStatusSuccessful == 1      \* types.ReceiptStatusSuccessful

\* ------------------------------------------------------------------- inputs
AATxType == "AA"
LegacyTxType == "Legacy"

PaymasterDataChoices ==
    { <<>>, SponsorAddress, SponsorAddress \o <<7>> }
DeployerDataChoices ==
    { <<>>, ZeroAddress, DeployerAddress \o <<9>> }

AATxs ==
    [Type : {AATxType}, PaymasterData : PaymasterDataChoices,
     DeployerData : DeployerDataChoices, Gas : {0}, msgErr : {FALSE}]
LegacyTxs ==
    [Type : {LegacyTxType}, PaymasterData : {<<>>}, DeployerData : {<<>>},
     Gas : {LegacyTxGas}, msgErr : BOOLEAN]
Txs == AATxs \cup LegacyTxs

Blocks ==
    [txs : UNION { [1..n -> Txs] : n \in 0..MaxTxs },
     beaconRoot : BOOLEAN,
     withdrawals : 0..1,
     gasLimit : { k * GasUnit : k \in {2, MaxGasUnits} }]

\* -------------------------------------------------------------------- state
VARIABLES
    block,                   \* the block being processed (input)
    shanghai,                \* p.config.IsShanghai(block.Number(), block.Time())
    pc,                      \* position of Process: start, validation, execution,
                             \*   legacy, finalize, done, error, panic
    i,                       \* index of the current transaction / validation result
    step,                    \* next call frame of the AA validation phase
    gp,                      \* the GasPool of this invocation
    usedGas,                 \* *usedGas
    receipts,                \* receipts accumulated so far
    allLogs,                 \* logs accumulated so far
    verifiedAATransactions,  \* validation results collected by the first loop
    statedb,                 \* world-state: current tx context and logs by tx hash
    frames,                  \* history: every call frame invoked, in order
    finalized,               \* p.engine.Finalize was invoked
    ret,                     \* what Process returned (when pc is done or error)
    sysCall,                 \* history: the steps of ProcessBeaconBlockRoot, in order
    auth                     \* the stAuthorization decoder: input, receiver, result

vars == <<block, shanghai, pc, i, step, gp, usedGas, receipts, allLogs,
          verifiedAATransactions, statedb, frames, finalized, ret,
          sysCall, auth>>

NoHash == 0                       \* common.Hash{}: the tx hash of a fresh StateDB
TxHash(k) == k                    \* tx.Hash(): distinct per transaction of the block
IsAA(k) == block.txs[k].Type = AATxType     \* tx.Type() == types.ALEXF_AA_TX_TYPE
NTxs == Len(block.txs)

NoReturn == [receipts |-> <<>>, logs |-> <<>>, usedGas |-> 0, err |-> "pending"]

\* The decoder is not part of a Process run.
NoAuth == [pc |-> "unused"]

\* The state in which Process is entered on one of the given blocks.
ProcessInit(blocks) ==
    /\ block \in blocks
    /\ shanghai \in BOOLEAN
    /\ pc = "start"
    /\ i = 0
    /\ step = "none"
    /\ gp = 0
    /\ usedGas = 0
    /\ receipts = <<>>
    /\ allLogs = <<>>
    /\ verifiedAATransactions = <<>>
    /\ statedb = [thash |-> NoHash, txIndex |-> 0,
                  logs |-> [h \in 0..MaxTxs + 1 |-> <<>>]]
    /\ frames = <<>>
    /\ finalized = FALSE
    /\ ret = NoReturn
    /\ sysCall = <<>>

Init ==
    /\ ProcessInit(Blocks)
    /\ auth = NoAuth

\* ------------------------------------------- external collaborators (spec §2)
\* The results a call frame that ran may report (a sample of the invoker's
\* behaviours): it succeeds on half of its gas limit and emits a log, or it
\* fails, uses all of its gas limit and its logs are reverted.
RanOutcomes(gasLimit) ==
    { [failed |-> FALSE, usedGas |-> gasLimit \div 2, emits |-> TRUE],
      [failed |-> TRUE, usedGas |-> gasLimit, emits |-> FALSE] }

\* The call-frame invoker: the outcomes ApplyMessage(evm, msg, gp) may have when
\* the pool holds `pool`.  A frame whose gas limit exceeds the pool is rejected
\* (the pool never goes negative); any frame may be rejected for another reason;
\* otherwise the frame runs and its used gas is drawn from the pool.
ApplyMessage(msg, pool) ==
    IF pool < msg.GasLimit
    THEN { [err |-> ErrGasLimitReached, failed |-> FALSE, usedGas |-> 0,
            pool |-> pool, emits |-> FALSE] }
    ELSE { [err |-> ErrInvoker, failed |-> FALSE, usedGas |-> 0,
            pool |-> pool, emits |-> FALSE] }
         \cup
         { [err |-> NoError, failed |-> o.failed, usedGas |-> o.usedGas,
            pool |-> pool - o.usedGas, emits |-> o.emits] :
              o \in RanOutcomes(msg.GasLimit) }

\* The world-state files an emitted log under the current transaction hash.
AddLog(db, emits, lg) ==
    IF emits THEN [db EXCEPT !.logs[db.thash] = Append(@, lg)] ELSE db
\* statedb.GetLogs(hash, ...)
GetLogs(db, hash) == db.logs[hash]
\* statedb.SetTxContext(thash, ti)
SetTxContext(db, hash, ti) == [db EXCEPT !.thash = hash, !.txIndex = ti]

\* ------------------------------------------------------------ call frames
\* The Message of a call frame (the fields the claims read).
Message(from, to, data, gasLimit) ==
    [From |-> from, To |-> to, Data |-> data, GasLimit |-> gasLimit]

\* History record of one invoked frame and of what the invoker answered.
Frame(phase, kind, tx, msg, poolBefore, res) ==
    [phase |-> phase, kind |-> kind, tx |-> tx, msg |-> msg,
     gpBefore |-> poolBefore, gpAfter |-> res.pool,
     err |-> res.err, failed |-> res.failed, emits |-> res.emits]

\* The log a frame emits: which transaction's frame emitted it, and when.
LogOf(tx, n) == [tx |-> tx, seq |-> n]

\* ------------------------------------------------------------- error values
PlainErr(m) == [msg |-> m, wrapped |-> FALSE, index |-> 0, hash |-> NoHash]
\* Mutant of WrapErr: the error is passed on without index and hash.
WrapErr_Unwrapped(idx, hash, m) ==
    [msg |-> m, wrapped |-> FALSE, index |-> 0, hash |-> NoHash]

\* fmt.Errorf("could not apply tx %d [%v]: %w", i, tx.Hash().Hex(), err)
WrapErr(idx, hash, m) == [msg |-> m, wrapped |-> TRUE, index |-> idx, hash |-> hash]

\* Mutant of ErrorReturn: the error return hands back what was accumulated.
ErrorReturn_Partial(e) ==
    [receipts |-> receipts, logs |-> allLogs, usedGas |-> usedGas, err |-> e]

\* `return nil, nil, 0, err`
ErrorReturn(e) == [receipts |-> <<>>, logs |-> <<>>, usedGas |-> 0, err |-> e]
\* `return receipts, allLogs, *usedGas, nil`
SuccessReturn(rs, ls, used) ==
    [receipts |-> rs, logs |-> ls, usedGas |-> used, err |-> PlainErr(NoError)]

\* Mutant of NewGasPool: the block gas limit is added to the pool twice.
NewGasPool_Twice(b) == b.gasLimit + b.gasLimit

\* gp = new(GasPool).AddGas(block.GasLimit())
NewGasPool(b) == b.gasLimit

\* ------------------------------------------------- the three loops of Process
\* Mutant of PhaseAfter: the legacy loop runs before the AA execution loop.
PhaseAfter_LegacyFirst(phase) ==
    CASE phase = "start" -> "validation"
      [] phase = "validation" -> "legacy"
      [] phase = "legacy" -> "execution"
      [] phase = "execution" -> "finalize"
      [] OTHER -> "finalize"

\* The loop that follows each loop of Process.
PhaseAfter(phase) ==
    CASE phase = "start" -> "validation"
      [] phase = "validation" -> "execution"
      [] phase = "execution" -> "legacy"
      [] phase = "legacy" -> "finalize"
      [] OTHER -> "finalize"

\* Mutant of NextTx: the legacy loop does not skip AA-typed transactions.
NextTx_NoSkip(from, aa) ==
    LET S == { k \in (from + 1)..NTxs : aa => IsAA(k) }
    IN  IF S = {} THEN 0 ELSE CHOOSE k \in S : \A m \in S : k <= m

\* First index above `from` whose transaction has / has not the AA type (0: none).
NextTx(from, aa) ==
    LET S == { k \in (from + 1)..NTxs : IsAA(k) = aa }
    IN  IF S = {} THEN 0 ELSE CHOOSE k \in S : \A m \in S : k <= m

\* Next iteration of the given loop after iteration `from` (0: the loop is over).
NextIn(phase, from, vprs) ==
    CASE phase = "validation" -> NextTx(from, TRUE)
      [] phase = "execution" -> IF from < Len(vprs) THEN from + 1 ELSE 0
      [] phase = "legacy" -> NextTx(from, FALSE)
      [] OTHER -> 0

\* Where Process continues after iteration `from` of loop `phase`.
RECURSIVE Goto(_, _, _)
Goto(phase, from, vprs) ==
    IF phase \notin {"validation", "execution", "legacy"}
    THEN [pc |-> "finalize", i |-> 0]
    ELSE LET k == NextIn(phase, from, vprs)
         IN  IF k # 0 THEN [pc |-> phase, i |-> k]
             ELSE Goto(PhaseAfter(phase), 0, vprs)

Continue(phase, from, vprs) ==
    LET g == Goto(phase, from, vprs)
    IN  /\ pc' = g.pc
        /\ i' = g.i
        /\ step' = IF g.pc = "validation" THEN "nonce" ELSE "none"

\* Process returns the error e.
Abort(e) ==
    /\ pc' = "error"
    /\ ret' = ErrorReturn(e)
    /\ UNCHANGED <<i, step>>

\* Bookkeeping of one ApplyMessage(evm, msg, gp) call with outcome r.
Invoked(phase, kind, tx, msg, r) ==
    /\ frames' = Append(frames, Frame(phase, kind, tx, msg, gp, r))
    /\ gp' = r.pool
    /\ statedb' = AddLog(statedb, r.emits, LogOf(tx, Len(frames) + 1))

\* ------------------------------------------------------------------ Process
\* Mutant of ProcessBeaconBlockRoot: the state is not finalised after the call.
ProcessBeaconBlockRoot_NoFinalise ==
    << "Reset", "AddAddressToAccessList", "Call" >>

\* The steps of ProcessBeaconBlockRoot in program order: the EVM is reset to the
\* system message, the beacon-roots storage address is added to the access
\* list, the contract is called, the state is finalised.
ProcessBeaconBlockRoot ==
    << "Reset", "AddAddressToAccessList", "Call", "Finalise" >>

\* Process, up to the first loop: the gas pool and the beacon-root system call
\* (vmenv.Call with its own gas allowance: the pool is not involved and the
\* call's result is dropped; the beacon root payload is not modelled).
Start ==
    /\ pc = "start"
    /\ gp' = NewGasPool(block)
    /\ frames' =
         IF block.beaconRoot
         THEN Append(frames,
                Frame("beacon", "beacon", 0,
                      Message(SystemAddress, BeaconRootsStorageAddress,
                              <<>>, 30000000),
                      NewGasPool(block),
                      [pool |-> NewGasPool(block), err |-> NoError,
                       failed |-> FALSE, emits |-> FALSE]))
         ELSE frames
    /\ Continue(PhaseAfter("start"), 0, verifiedAATransactions)
    /\ sysCall' = IF block.beaconRoot THEN ProcessBeaconBlockRoot ELSE sysCall
    /\ UNCHANGED <<block, shanghai, usedGas, receipts, allLogs,
                   verifiedAATransactions, statedb, finalized, ret, auth>>

\* ------------------------------------------------------ AA validation phase
aatx == block.txs[i]                \* tx.AlexfAATransactionData()

\* len(aatx.DeployerData) >= 20 && deployerAddress.Cmp(common.Address{}) != 0
HasDeployer(tx) ==
    /\ Len(tx.DeployerData) >= AddressLength
    /\ Slice(tx.DeployerData, 0, AddressLength) # ZeroAddress

\* len(aatx.PaymasterData) >= 20
HasPaymaster(tx) == Len(tx.PaymasterData) >= AddressLength

\* Mutant of PaymasterRejected: the sponsor's result is not looked at.
PaymasterRejected_Never(r) == FALSE

\* resultPm.Failed()
PaymasterRejected(r) == r.failed

\* The ValidationPhaseResult of a successful validation; paymasterContext is the
\* declared-but-never-assigned local (nil).
NewValidationPhaseResult(tx) ==
    [Tx |-> tx, paymasterContext |-> <<>>,
     validationGasUsed |-> 0, paymasterGasUsed |-> 0]

\* applyAlexfAATransactionValidationPhase returned vpr; Process appends it and
\* moves to the next AA transaction.
Validated ==
    /\ verifiedAATransactions' =
           Append(verifiedAATransactions, NewValidationPhaseResult(i))
    /\ Continue("validation", i, verifiedAATransactions')
    /\ UNCHANGED ret

\* Nonce-management call.  Building its message slices PaymasterData[20:], which
\* panics when the data is shorter than 20 bytes.
NonceManagerFrame ==
    /\ pc = "validation" /\ step = "nonce"
    /\ IF Len(aatx.PaymasterData) < AddressLength
       THEN /\ pc' = "panic"
            /\ UNCHANGED <<i, step, gp, frames, statedb, ret>>
       ELSE LET msg == Message(SenderAddress, ZeroAddress,
                               Slice(aatx.PaymasterData, AddressLength,
                                     Len(aatx.PaymasterData)),
                               AAFrameGasLimit)
            IN  \E r \in ApplyMessage(msg, gp) :
                  /\ Invoked("validation", "nonce", i, msg, r)
                  /\ IF r.err # NoError
                     THEN Abort(PlainErr(r.err))
                     ELSE /\ step' = IF HasDeployer(aatx) THEN "deployer" ELSE "self"
                          /\ UNCHANGED <<pc, i, ret>>
    /\ UNCHANGED <<block, shanghai, usedGas, receipts, allLogs,
                   verifiedAATransactions, finalized, sysCall, auth>>

\* Deployer call: the message is the empty Message{}.
DeployerFrame ==
    /\ pc = "validation" /\ step = "deployer"
    /\ LET msg == Message(ZeroAddress, NilAddress, <<>>, 0)
       IN  \E r \in ApplyMessage(msg, gp) :
             /\ Invoked("validation", "deployer", i, msg, r)
             /\ IF r.err # NoError
                THEN Abort(PlainErr(r.err))
                ELSE /\ step' = "self"
                     /\ UNCHANGED <<pc, i, ret>>
    /\ UNCHANGED <<block, shanghai, usedGas, receipts, allLogs,
                   verifiedAATransactions, finalized, sysCall, auth>>

\* Self-validation call.
AccountValidationFrame ==
    /\ pc = "validation" /\ step = "self"
    /\ LET msg == Message(SenderAddress, SenderAddress, <<>>, AAFrameGasLimit)
       IN  \E r \in ApplyMessage(msg, gp) :
             /\ Invoked("validation", "self", i, msg, r)
             /\ IF r.err # NoError
                THEN /\ Abort(PlainErr(r.err))
                     /\ UNCHANGED verifiedAATransactions
                ELSE IF HasPaymaster(aatx)
                THEN /\ step' = "paymaster"
                     /\ UNCHANGED <<pc, i, ret, verifiedAATransactions>>
                ELSE Validated
    /\ UNCHANGED <<block, shanghai, usedGas, receipts, allLogs, finalized,
                   sysCall, auth>>

\* Sponsor-validation call.
PaymasterFrame ==
    /\ pc = "validation" /\ step = "paymaster"
    /\ LET msg == Message(SenderAddress,
                          Slice(aatx.PaymasterData, 0, AddressLength),
                          Slice(aatx.PaymasterData, AddressLength,
                                Len(aatx.PaymasterData)),
                          AAFrameGasLimit)
       IN  \E r \in ApplyMessage(msg, gp) :
             /\ Invoked("validation", "paymaster", i, msg, r)
             /\ IF r.err # NoError
                THEN /\ Abort(PlainErr(r.err))
                     /\ UNCHANGED verifiedAATransactions
                ELSE IF PaymasterRejected(r)
                THEN /\ Abort(PlainErr(ErrPaymaster))
                     /\ UNCHANGED verifiedAATransactions
                ELSE Validated
    /\ UNCHANGED <<block, shanghai, usedGas, receipts, allLogs, finalized,
                   sysCall, auth>>

\* ------------------------------------------------------- AA execution phase
vpr == verifiedAATransactions[i]

\* Mutant of ExecutionReceipt: the status ignores the self-execution result.
ExecutionReceipt_AlwaysSuccessful(tx, result, db) ==
    [Type |-> block.txs[tx].Type, PostState |-> <<>>, CumulativeGasUsed |-> 0,
     Status |-> ReceiptStatusSuccessful,
     TxHash |-> NoHash, GasUsed |-> 0,
     Logs |-> GetLogs(db, TxHash(tx)), TransactionIndex |-> 0,
     ofTx |-> tx]

\* Mutant of ExecutionReceipt: the receipt reports the gas of the execution frame.
ExecutionReceipt_ResultGas(tx, result, db) ==
    [Type |-> block.txs[tx].Type, PostState |-> <<>>,
     CumulativeGasUsed |-> result.usedGas,
     Status |-> IF result.failed THEN ReceiptStatusFailed
                ELSE ReceiptStatusSuccessful,
     TxHash |-> NoHash, GasUsed |-> result.usedGas,
     Logs |-> GetLogs(db, TxHash(tx)), TransactionIndex |-> 0,
     ofTx |-> tx]

\* The receipt of the execution phase: type, nil root, cumulative gas 0, the logs
\* filed under the transaction's hash, status from the self-execution result.
\* TxHash, GasUsed and TransactionIndex are left at their zero values.
ExecutionReceipt(tx, result, db) ==
    [Type |-> block.txs[tx].Type, PostState |-> <<>>, CumulativeGasUsed |-> 0,
     Status |-> IF result.failed THEN ReceiptStatusFailed
                ELSE ReceiptStatusSuccessful,
     TxHash |-> NoHash, GasUsed |-> 0,
     Logs |-> GetLogs(db, TxHash(tx)), TransactionIndex |-> 0,
     ofTx |-> tx]

\* Mutant of Executed: the receipt is put in front of the list.
Executed_Prepend(result, db) ==
    LET receipt == ExecutionReceipt(vpr.Tx, result, db)
    IN  /\ receipts' = <<receipt>> \o receipts
        /\ allLogs' = receipt.Logs \o allLogs
        /\ Continue("execution", i, verifiedAATransactions)
        /\ UNCHANGED ret

\* The execution phase returned a receipt; Process appends it and its logs.
Executed(result, db) ==
    LET receipt == ExecutionReceipt(vpr.Tx, result, db)
    IN  /\ receipts' = Append(receipts, receipt)
        /\ allLogs' = allLogs \o receipt.Logs
        /\ Continue("execution", i, verifiedAATransactions)
        /\ UNCHANGED ret

\* ApplyAlexfAATransactionExecutionPhase for one validation result: message
\* construction, the self-execution call, the sponsor post-operation call when
\* the validation result carries a context, and the receipt.
ExecutionPhase ==
    /\ pc = "execution"
    /\ LET tx == vpr.Tx
           data == block.txs[tx]
           execMsg == Message(SenderAddress, SenderAddress, <<>>, AAFrameGasLimit)
           postMsg == Message(SenderAddress,
                              Slice(data.PaymasterData, 0, AddressLength),
                              vpr.paymasterContext, AAFrameGasLimit)
       IN  IF data.msgErr
           THEN /\ Abort(PlainErr(ErrMessage))
                /\ UNCHANGED <<gp, frames, statedb, receipts, allLogs>>
           ELSE \E r \in ApplyMessage(execMsg, gp) :
                  LET f1 == Append(frames, Frame("execution", "exec", tx, execMsg, gp, r))
                      db1 == AddLog(statedb, r.emits, LogOf(tx, Len(frames) + 1))
                  IN  IF r.err # NoError
                      THEN /\ frames' = f1 /\ gp' = r.pool /\ statedb' = db1
                           /\ Abort(PlainErr(r.err))
                           /\ UNCHANGED <<receipts, allLogs>>
                      ELSE IF Len(vpr.paymasterContext) = 0
                      THEN /\ frames' = f1 /\ gp' = r.pool /\ statedb' = db1
                           /\ Executed(r, db1)
                      ELSE \E q \in ApplyMessage(postMsg, r.pool) :
                             LET f2 == Append(f1, Frame("execution", "postop", tx,
                                                        postMsg, r.pool, q))
                                 db2 == AddLog(db1, q.emits, LogOf(tx, Len(f1) + 1))
                             IN  /\ frames' = f2 /\ gp' = q.pool /\ statedb' = db2
                                 /\ IF q.err # NoError
                                    THEN /\ Abort(PlainErr(q.err))
                                         /\ UNCHANGED <<receipts, allLogs>>
                                    ELSE Executed(r, db2)
    /\ UNCHANGED <<block, shanghai, usedGas, verifiedAATransactions, finalized,
                   sysCall, auth>>

\* ------------------------------------------------ legacy transaction applier
\* Mutant of LegacyReceipt: cumulative gas is the transaction's own gas used.
LegacyReceipt_OwnGas(tx, result, db, used) ==
    [Type |-> block.txs[tx].Type, PostState |-> <<>>,
     CumulativeGasUsed |-> result.usedGas,
     Status |-> IF result.failed THEN ReceiptStatusFailed
                ELSE ReceiptStatusSuccessful,
     TxHash |-> TxHash(tx), GasUsed |-> result.usedGas,
     Logs |-> GetLogs(db, TxHash(tx)), TransactionIndex |-> db.txIndex,
     ofTx |-> tx]

\* The receipt built by applyTransaction.
LegacyReceipt(tx, result, db, used) ==
    [Type |-> block.txs[tx].Type, PostState |-> <<>>, CumulativeGasUsed |-> used,
     Status |-> IF result.failed THEN ReceiptStatusFailed
                ELSE ReceiptStatusSuccessful,
     TxHash |-> TxHash(tx), GasUsed |-> result.usedGas,
     Logs |-> GetLogs(db, TxHash(tx)), TransactionIndex |-> db.txIndex,
     ofTx |-> tx]

\* One iteration of the third loop of Process on a non-AA transaction:
\* TransactionToMessage, SetTxContext, applyTransaction, append.
LegacyTransaction ==
    /\ pc = "legacy"
    /\ LET tx == block.txs[i]
           msg == Message(SenderAddress, SenderAddress, <<>>, tx.Gas)
           db0 == SetTxContext(statedb, TxHash(i), i - 1)
       IN  IF tx.msgErr
           THEN /\ Abort(WrapErr(i - 1, TxHash(i), ErrMessage))
                /\ UNCHANGED <<gp, frames, statedb, usedGas, receipts, allLogs>>
           ELSE \E r \in ApplyMessage(msg, gp) :
                  LET db1 == AddLog(db0, r.emits, LogOf(i, Len(frames) + 1))
                  IN  /\ frames' = Append(frames, Frame("legacy", "legacy", i, msg, gp, r))
                      /\ gp' = r.pool
                      /\ statedb' = db1
                      /\ IF r.err # NoError
                         THEN /\ Abort(WrapErr(i - 1, TxHash(i), r.err))
                              /\ UNCHANGED <<usedGas, receipts, allLogs>>
                         ELSE LET receipt == LegacyReceipt(i, r, db1, usedGas + r.usedGas)
                              IN  /\ usedGas' = usedGas + r.usedGas
                                  /\ receipts' = Append(receipts, receipt)
                                  /\ allLogs' = allLogs \o receipt.Logs
                                  /\ Continue("legacy", i, verifiedAATransactions)
                                  /\ UNCHANGED ret
    /\ UNCHANGED <<block, shanghai, verifiedAATransactions, finalized,
                   sysCall, auth>>

\* ------------------------------------------------------- end of Process
\* Mutant of WithdrawalsBeforeShanghai: the fork is not looked at.
WithdrawalsBeforeShanghai_Unchecked == FALSE

\* len(withdrawals) > 0 && !p.config.IsShanghai(block.Number(), block.Time())
WithdrawalsBeforeShanghai == block.withdrawals > 0 /\ ~shanghai

\* The withdrawals check, consensus finalization and the successful return.
Finish ==
    /\ pc = "finalize"
    /\ IF WithdrawalsBeforeShanghai
       THEN /\ Abort(PlainErr(ErrWithdrawals))
            /\ UNCHANGED finalized
       ELSE /\ finalized' = TRUE
            /\ ret' = SuccessReturn(receipts, allLogs, usedGas)
            /\ pc' = "done"
            /\ UNCHANGED <<i, step>>
    /\ UNCHANGED <<block, shanghai, gp, usedGas, receipts, allLogs,
                   verifiedAATransactions, statedb, frames, sysCall, auth>>

Next ==
    \/ Start
    \/ NonceManagerFrame
    \/ DeployerFrame
    \/ AccountValidationFrame
    \/ PaymasterFrame
    \/ ExecutionPhase
    \/ LegacyTransaction
    \/ Finish

Spec == Init /\ [][Next]_vars

\* ---------------------------------------------------------------- typing
TypeOK ==
    /\ pc \in {"start", "validation", "execution", "legacy", "finalize",
               "done", "error", "panic"}
    /\ gp \in Nat
    /\ usedGas \in Nat
    /\ Len(receipts) <= NTxs

\* ---------------------------------- stAuthorization (tests/gen_stauthorization.go)
\* A pointer field of the decoding struct: nil, or a pointer to a value.
Nil == [present |-> FALSE, val |-> 0]
Ptr(v) == [present |-> TRUE, val |-> v]
Pointers == {Nil} \cup { Ptr(v) : v \in 0..MaxAuthValue }

\* The JSON documents handed to the decoder: syntactically broken, or an
\* object in which each key is absent or carries a value.
AuthInputs ==
    [malformed : BOOLEAN, chainId : Pointers, address : Pointers,
     nonce : Pointers, v : Pointers, r : Pointers, s : Pointers]

ErrJSON == "invalid JSON input"
MissingField(name) == "missing required field '" \o name \o "' for stAuthorization"

\* json.Unmarshal(input, &dec): the error and the decoding struct it fills.
JsonUnmarshal(input) ==
    [err |-> IF input.malformed THEN ErrJSON ELSE NoError,
     dec |-> [ChainID |-> input.chainId, Address |-> input.address,
              Nonce |-> input.nonce, V |-> input.v, R |-> input.r,
              S |-> input.s]]

\* The zero value of stAuthorization.
ZeroAuthorization ==
    [ChainID |-> Nil, Address |-> 0, Nonce |-> 0, V |-> Nil, R |-> Nil, S |-> Nil]

\* A decoder that looks for v before nonce.
UnmarshalFields_VBeforeNonce(dec, s0) ==
    LET s1 == IF dec.ChainID.present THEN [s0 EXCEPT !.ChainID = dec.ChainID] ELSE s0
    IN IF ~dec.Address.present THEN [s |-> s1, err |-> MissingField("address")]
       ELSE LET s2 == [s1 EXCEPT !.Address = dec.Address.val]
       IN IF ~dec.V.present THEN [s |-> s2, err |-> MissingField("v")]
       ELSE LET s3 == [s2 EXCEPT !.V = dec.V]
       IN IF ~dec.Nonce.present THEN [s |-> s3, err |-> MissingField("nonce")]
       ELSE LET s4 == [s3 EXCEPT !.Nonce = dec.Nonce.val]
       IN IF ~dec.R.present THEN [s |-> s4, err |-> MissingField("r")]
       ELSE LET s5 == [s4 EXCEPT !.R = dec.R]
       IN IF ~dec.S.present THEN [s |-> s5, err |-> MissingField("s")]
       ELSE [s |-> [s5 EXCEPT !.S = dec.S], err |-> NoError]

\* The body of UnmarshalJSON after json.Unmarshal succeeded: the optional
\* chain-id, then each required field in turn, assigned as soon as it is found.
UnmarshalFields(dec, s0) ==
    LET s1 == IF dec.ChainID.present THEN [s0 EXCEPT !.ChainID = dec.ChainID] ELSE s0
    IN IF ~dec.Address.present THEN [s |-> s1, err |-> MissingField("address")]
       ELSE LET s2 == [s1 EXCEPT !.Address = dec.Address.val]
       IN IF ~dec.Nonce.present THEN [s |-> s2, err |-> MissingField("nonce")]
       ELSE LET s3 == [s2 EXCEPT !.Nonce = dec.Nonce.val]
       IN IF ~dec.V.present THEN [s |-> s3, err |-> MissingField("v")]
       ELSE LET s4 == [s3 EXCEPT !.V = dec.V]
       IN IF ~dec.R.present THEN [s |-> s4, err |-> MissingField("r")]
       ELSE LET s5 == [s4 EXCEPT !.R = dec.R]
       IN IF ~dec.S.present THEN [s |-> s5, err |-> MissingField("s")]
       ELSE [s |-> [s5 EXCEPT !.S = dec.S], err |-> NoError]

\* func (s *stAuthorization) UnmarshalJSON(input []byte) error
UnmarshalJSON ==
    /\ auth.pc = "input"
    /\ LET j == JsonUnmarshal(auth.input)
           u == UnmarshalFields(j.dec, auth.s)
       IN auth' = IF j.err # NoError
                  THEN [auth EXCEPT !.pc = "decoded", !.err = j.err]
                  ELSE [auth EXCEPT !.pc = "decoded", !.s = u.s, !.err = u.err]
    /\ UNCHANGED <<block, shanghai, pc, i, step, gp, usedGas, receipts, allLogs,
                   verifiedAATransactions, statedb, frames, finalized, ret,
                   sysCall>>

\* A block without transactions: no Process run takes part in a decoding.
EmptyBlock ==
    [txs |-> <<>>, beaconRoot |-> FALSE, withdrawals |-> 0,
     gasLimit |-> 2 * GasUnit]

InitAuth ==
    /\ ProcessInit({EmptyBlock})
    /\ auth \in { [pc |-> "input", input |-> in, s |-> ZeroAuthorization,
                   err |-> NoError] : in \in AuthInputs }

NextAuth == UnmarshalJSON

SpecAuth == InitAuth /\ [][NextAuth]_vars

\* ------------------------- runs on blocks whose AA transactions may be malformed
\* AA transactions for which TransactionToMessage may return an error (with
\* the message it built, as for a legacy transaction).
MsgErrAATxs ==
    [Type : {AATxType}, PaymasterData : PaymasterDataChoices \ {<<>>},
     DeployerData : DeployerDataChoices, Gas : {0}, msgErr : BOOLEAN]

MsgErrBlocks ==
    [txs : UNION { [1..n -> MsgErrAATxs \cup LegacyTxs] : n \in 0..MaxTxs },
     beaconRoot : BOOLEAN,
     withdrawals : {0},
     gasLimit : { MaxGasUnits * GasUnit }]

InitMsgErr ==
    /\ ProcessInit(MsgErrBlocks)
    /\ auth = NoAuth

SpecMsgErr == InitMsgErr /\ [][Next]_vars

\* ================================================================== claims
\* ------------------------------------------------------ helpers of the claims
PhaseRank(ph) ==
    CASE ph = "beacon" -> 0
      [] ph = "validation" -> 1
      [] ph = "execution" -> 2
      [] ph = "legacy" -> 3

FramesOfPhase(ph) == { k \in 1..Len(frames) : frames[k].phase = ph }
FramesOf(tx, kinds) ==
    { k \in 1..Len(frames) : frames[k].tx = tx /\ frames[k].kind \in kinds }

RECURSIVE IndicesFrom(_, _)
\* The block indices from k on whose transaction has / has not the AA type.
IndicesFrom(k, aa) ==
    IF k > NTxs THEN <<>>
    ELSE (IF IsAA(k) = aa THEN <<k>> ELSE <<>>) \o IndicesFrom(k + 1, aa)

RECURSIVE ConcatLogs(_)
ConcatLogs(rs) == IF rs = <<>> THEN <<>> ELSE Head(rs).Logs \o ConcatLogs(Tail(rs))

C2_AllOrNothing ==
    pc = "error" =>
        /\ ret.receipts = <<>>
        /\ ret.logs = <<>>
        /\ ret.usedGas = 0
        /\ ret.err.msg # NoError
        /\ ~finalized

\* C2 witness: an error return after a receipt was built and gas was used.
C2_Witness ==
    /\ pc = "error"
    /\ Len(receipts) >= 1
    /\ usedGas > 0

\* C3: a successful Process returns exactly one receipt per transaction.
C3_OneReceiptPerTx ==
    pc = "done" => Len(ret.receipts) = NTxs

\* C3 witness: a successful run of a block with an AA and a legacy transaction.
C3_Witness ==
    /\ pc = "done"
    /\ NTxs = 2
    /\ \E a, b \in 1..2 : IsAA(a) /\ ~IsAA(b)

IsLegacyReceipt(r) == r.Type # AATxType
LegacyReceipts == SelectSeq(receipts, IsLegacyReceipt)

\* C5: over the legacy receipts in application order, cumulative gas used is
\* the previous legacy cumulative gas plus the transaction's own gas used (so
\* it never decreases), and on success the last receipt's cumulative gas is the
\* total gas used that Process returns.
C5_CumulativeGas ==
    /\ \A k \in 1..Len(LegacyReceipts) :
         /\ LegacyReceipts[k].CumulativeGasUsed =
              (IF k = 1 THEN 0 ELSE LegacyReceipts[k - 1].CumulativeGasUsed)
              + LegacyReceipts[k].GasUsed
         /\ k > 1 => LegacyReceipts[k].CumulativeGasUsed
                       >= LegacyReceipts[k - 1].CumulativeGasUsed
    /\ (pc = "done" /\ ret.receipts # <<>>) =>
         ret.receipts[Len(ret.receipts)].CumulativeGasUsed = ret.usedGas

\* C5 witness: a successful run with two legacy receipts of different gas used.
C5_Witness ==
    /\ pc = "done"
    /\ Len(LegacyReceipts) = 2
    /\ LegacyReceipts[1].GasUsed # LegacyReceipts[2].GasUsed
    /\ ret.usedGas = LegacyReceipts[1].GasUsed + LegacyReceipts[2].GasUsed

TxFrames == { k \in 1..Len(frames) : frames[k].phase # "beacon" }

\* C6: one gas pool per run, initialised to the block gas limit and handed from
\* each transaction call frame to the next; it stays between 0 and the block gas
\* limit and no call frame leaves it higher than it found it; a frame whose gas
\* limit exceeds what remains ends the run with an error and no receipts.
C6_GasBudget ==
    /\ pc # "start" => (0 <= gp /\ gp <= block.gasLimit)
    /\ \A k \in TxFrames :
         /\ frames[k].gpBefore =
              (IF k - 1 \in TxFrames THEN frames[k - 1].gpAfter ELSE block.gasLimit)
         /\ 0 <= frames[k].gpAfter
         /\ frames[k].gpAfter <= frames[k].gpBefore
         /\ k = Len(frames) => gp = frames[k].gpAfter
         /\ frames[k].msg.GasLimit > frames[k].gpBefore =>
              /\ k = Len(frames)
              /\ frames[k].err # NoError
              /\ pc = "error"
              /\ ret.receipts = <<>>

\* C6 witness: the pool ran out after a receipt had been built.
C6_Witness ==
    /\ pc = "error"
    /\ ret.err.msg = ErrGasLimitReached
    /\ Len(receipts) >= 1
    /\ frames[Len(frames)].msg.GasLimit > frames[Len(frames)].gpBefore

\* C7: every receipt has status failed or successful, and it is failed exactly
\* when the transaction's deciding call reported failure: the single call of a
\* legacy transaction, the self-execution call of an AA transaction.
C7_ReceiptStatus ==
    \A k \in 1..Len(receipts) :
      LET r == receipts[k]
          deciding == FramesOf(r.ofTx, IF IsAA(r.ofTx) THEN {"exec"} ELSE {"legacy"})
      IN  /\ r.Status \in {ReceiptStatusFailed, ReceiptStatusSuccessful}
          /\ Cardinality(deciding) = 1
          /\ \A d \in deciding :
               (r.Status = ReceiptStatusFailed) <=> frames[d].failed

\* C7 witness: an AA receipt with status failed although a validation frame of
\* its transaction succeeded, next to a successful legacy receipt.
C7_Witness ==
    /\ pc = "done"
    /\ \E a, b \in 1..Len(receipts) :
         /\ IsAA(receipts[a].ofTx)
         /\ receipts[a].Status = ReceiptStatusFailed
         /\ \E v \in FramesOf(receipts[a].ofTx, {"nonce", "self", "paymaster"}) :
              ~frames[v].failed
         /\ ~IsAA(receipts[b].ofTx)
         /\ receipts[b].Status = ReceiptStatusSuccessful

\* Sponsor-validation frames that ran and reported failure.
RejectedBySponsor ==
    { k \in 1..Len(frames) :
        frames[k].kind = "paymaster" /\ frames[k].err = NoError /\ frames[k].failed }

\* C8: when the sponsor-validation call of an AA transaction reports failure,
\* validation returns the sponsor-validation error and no validation result:
\* the run ends with that error, no execution-phase frame is run for any AA
\* transaction and no receipt is produced.
C8_SponsorRejection ==
    \A k \in RejectedBySponsor :
        /\ k = Len(frames)
        /\ pc = "error"
        /\ ret.err = PlainErr(ErrPaymaster)
        /\ ErrPaymaster \notin {ErrGasLimitReached, ErrInvoker, ErrMessage,
                                ErrWithdrawals, NoError}
        /\ \A v \in 1..Len(verifiedAATransactions) :
             verifiedAATransactions[v].Tx # frames[k].tx
        /\ FramesOfPhase("execution") = {}
        /\ receipts = <<>>

\* C8 witness: the sponsor rejects the second AA transaction after the first
\* one was validated.
C8_Witness ==
    /\ RejectedBySponsor # {}
    /\ Len(verifiedAATransactions) = 1
    /\ pc = "error"

\* AA transactions of the block with empty paymaster-data.
NoSponsorTxs ==
    { t \in 1..NTxs : IsAA(t) /\ block.txs[t].PaymasterData = <<>> }

SponsorParticipated(t) ==
    \E k \in FramesOf(t, {"paymaster"}) :
        frames[k].err = NoError /\ ~frames[k].failed

\* C10: a validation result's paymasterContext is non-empty exactly when a
\* sponsor participated in validation, and an executed AA transaction has a
\* sponsor post-operation frame (after its self-execution frame, to the sponsor
\* address, carrying the context) exactly when a sponsor participated.
C10_SponsorContext ==
    /\ \A v \in 1..Len(verifiedAATransactions) :
         (verifiedAATransactions[v].paymasterContext # <<>>)
           <=> SponsorParticipated(verifiedAATransactions[v].Tx)
    /\ \A k \in 1..Len(receipts) :
         IsAA(receipts[k].ofTx) =>
           LET t == receipts[k].ofTx
           IN  /\ (FramesOf(t, {"postop"}) # {}) <=> SponsorParticipated(t)
               /\ \A q \in FramesOf(t, {"postop"}) :
                    /\ \E e \in FramesOf(t, {"exec"}) : e < q
                    /\ frames[q].msg.To =
                         Slice(block.txs[t].PaymasterData, 0, AddressLength)

\* C11: validating an AA transaction never ends abnormally, whatever its
\* paymaster-data and deployer-data: the nonce-management call is the first
\* frame of the transaction, and a validated transaction had its
\* nonce-management call and then its self-validation call.
C11_ValidationAlwaysRuns ==
    /\ pc # "panic"
    /\ \A t \in 1..NTxs :
         \A a \in FramesOf(t, {"deployer", "self", "paymaster"}) :
           \E n \in FramesOf(t, {"nonce"}) : n < a
    /\ \A v \in 1..Len(verifiedAATransactions) :
         \E n \in FramesOf(verifiedAATransactions[v].Tx, {"nonce"}) :
           \E a \in FramesOf(verifiedAATransactions[v].Tx, {"self"}) : n < a

\* The transaction whose application made Process fail: that of the last call
\* frame when the frame was rejected or the sponsor refused (0: none).
OffendingTx ==
    IF frames # <<>> /\ (frames[Len(frames)].err # NoError
                         \/ ret.err.msg = ErrPaymaster)
    THEN frames[Len(frames)].tx
    ELSE 0

\* C12: when Process fails on a transaction (AA or legacy; in validation,
\* execution or legacy application) the returned error is the first error met
\* and is annotated with that transaction's block index and hash.
C12_ErrorAnnotated ==
    (pc = "error" /\ ret.err.msg # ErrWithdrawals) =>
        /\ ret.err.wrapped
        /\ ret.err.index + 1 \in 1..NTxs
        /\ ret.err.hash = TxHash(ret.err.index + 1)
        /\ OffendingTx # 0 =>
             /\ ret.err.index + 1 = OffendingTx
             /\ frames[Len(frames)].err # NoError =>
                  ret.err.msg = frames[Len(frames)].err

NoAATxs == \A t \in 1..NTxs : ~IsAA(t)

\* The pure legacy loop: every transaction of the block, in block order, through
\* the legacy transaction applier, then the withdrawals check.  It is replayed
\* on the answers the invoker gave in this run (read from the frame history)
\* and yields what such a loop returns.
RECURSIVE LegacyLoop(_, _)
LegacyLoop(k, acc) ==
    IF k > NTxs
    THEN IF block.withdrawals > 0 /\ ~shanghai
         THEN [receipts |-> <<>>, logs |-> <<>>, usedGas |-> 0,
               err |-> [msg |-> ErrWithdrawals, wrapped |-> FALSE,
                        index |-> 0, hash |-> NoHash]]
         ELSE [receipts |-> acc.receipts, logs |-> acc.logs,
               usedGas |-> acc.usedGas,
               err |-> [msg |-> NoError, wrapped |-> FALSE,
                        index |-> 0, hash |-> NoHash]]
    ELSE IF block.txs[k].msgErr
    THEN [receipts |-> <<>>, logs |-> <<>>, usedGas |-> 0,
          err |-> [msg |-> ErrMessage, wrapped |-> TRUE,
                   index |-> k - 1, hash |-> TxHash(k)]]
    ELSE LET n == CHOOSE f \in 1..Len(frames) : frames[f].tx = k
             f == frames[n]
             used == f.gpBefore - f.gpAfter
             lgs == IF f.emits THEN << LogOf(k, n) >> ELSE <<>>
             receipt ==
               [Type |-> block.txs[k].Type, PostState |-> <<>>,
                CumulativeGasUsed |-> acc.usedGas + used,
                Status |-> IF f.failed THEN ReceiptStatusFailed
                           ELSE ReceiptStatusSuccessful,
                TxHash |-> TxHash(k), GasUsed |-> used, Logs |-> lgs,
                TransactionIndex |-> k - 1, ofTx |-> k]
         IN  IF f.err # NoError
             THEN [receipts |-> <<>>, logs |-> <<>>, usedGas |-> 0,
                   err |-> [msg |-> f.err, wrapped |-> TRUE,
                            index |-> k - 1, hash |-> TxHash(k)]]
             ELSE LegacyLoop(k + 1,
                    [receipts |-> Append(acc.receipts, receipt),
                     logs |-> acc.logs \o lgs,
                     usedGas |-> acc.usedGas + used])

\* C13: on a block without AA transactions Process returns the receipts, logs,
\* gas used and error of the pure legacy loop; the AA passes invoke no call
\* frame, leave the gas pool alone (what is missing from the pool is what the
\* legacy frames used) and add no receipt.
C13_LegacyParity ==
    NoAATxs =>
        /\ FramesOfPhase("validation") \cup FramesOfPhase("execution") = {}
        /\ verifiedAATransactions = <<>>
        /\ pc \notin {"validation", "execution"}
        /\ pc = "legacy" =>
             /\ Len(receipts) = Cardinality(FramesOfPhase("legacy"))
             /\ block.gasLimit - gp = usedGas
        /\ pc \in {"done", "error"} =>
             ret = LegacyLoop(1, [receipts |-> <<>>, logs |-> <<>>, usedGas |-> 0])

\* C13 witness: a successful run of two legacy transactions that returns logs.
C13_Witness ==
    /\ NoAATxs
    /\ NTxs = 2
    /\ pc = "done"
    /\ ret.logs # <<>>
    /\ ret.usedGas > 0

\* C14: a block with withdrawals under rules without withdrawal support makes
\* Process fail with the fork-policy error and no receipts, unless a transaction
\* failed first: the check comes after every transaction was applied, and the
\* consensus engine's Finalize is not invoked.
C14_WithdrawalsPolicy ==
    /\ (block.withdrawals > 0 /\ ~shanghai) => (pc # "done" /\ ~finalized)
    /\ (block.withdrawals > 0 /\ ~shanghai /\ pc = "error") =>
         \/ /\ ret = ErrorReturn(PlainErr(ErrWithdrawals))
            /\ Len(receipts) = NTxs
            /\ \A k \in 1..Len(frames) : frames[k].err = NoError
         \/ /\ ret.err.msg # ErrWithdrawals
            /\ Len(receipts) < NTxs
    /\ (pc = "error" /\ ret.err.msg = ErrWithdrawals) =>
         (block.withdrawals > 0 /\ ~shanghai)

\* C14 witness: the fork-policy error after two transactions were applied.
C14_Witness ==
    /\ pc = "error"
    /\ ret.err.msg = ErrWithdrawals
    /\ NTxs = 2
    /\ Len(receipts) = 2
    /\ ret.receipts = <<>>

\* The deployer address of a transaction's deployer-data, when it names one.
DeployerPrefix(t) == SubSeq(block.txs[t].DeployerData, 1, 20)
NamesDeployer(t) ==
    /\ Len(block.txs[t].DeployerData) >= 20
    /\ \E k \in 1..20 : DeployerPrefix(t)[k] # 0

\* C15: the validation phase invokes the deployer call exactly when the
\* deployer-data has at least 20 bytes and a non-zero address prefix; the call
\* comes after the nonce-management call and before the self-validation call,
\* and its recipient is that address.
C15_DeployerCall ==
    \A t \in 1..NTxs :
        /\ FramesOf(t, {"deployer"}) # {} => NamesDeployer(t)
        /\ FramesOf(t, {"self"}) # {} =>
             (FramesOf(t, {"deployer"}) # {} <=> NamesDeployer(t))
        /\ \A d \in FramesOf(t, {"deployer"}) :
             /\ \E n \in FramesOf(t, {"nonce"}) : n < d
             /\ \A a \in FramesOf(t, {"self"}) : d < a
             /\ frames[d].msg.To = DeployerPrefix(t)

\* The required fields in the order the decoder looks for them.
RequiredFields == <<"address", "nonce", "v", "r", "s">>
AbsentFields == { k \in 1..Len(RequiredFields) : ~auth.input[RequiredFields[k]].present }
FirstAbsent == CHOOSE k \in AbsentFields : \A m \in AbsentFields : k <= m

\* C16: decoding a well-formed authorization tuple fails with the error
\* "missing required field '<name>' for stAuthorization" whenever one of
\* address, nonce, v, r, s is absent, <name> being the first absent field in
\* that order; it succeeds whenever all five are present, with or without a
\* chain-id.
C16_MissingField ==
    (auth.pc = "decoded" /\ ~auth.input.malformed) =>
        IF AbsentFields # {}
        THEN auth.err = "missing required field '" \o RequiredFields[FirstAbsent]
                            \o "' for stAuthorization"
        ELSE auth.err = NoError

C16_Witness ==
    /\ auth.pc = "decoded"
    /\ ~auth.input.malformed
    /\ ~auth.input.chainId.present
    /\ auth.input.address.present
    /\ ~auth.input.nonce.present
    /\ ~auth.input.v.present
    /\ auth.input.r.present
    /\ auth.err = "missing required field 'nonce' for stAuthorization"

\* The positions of a step in the recorded system call.
StepsNamed(name) == { k \in 1..Len(sysCall) : sysCall[k] = name }
StepAt(name) == CHOOSE k \in StepsNamed(name) : TRUE
BeaconSteps == {"AddAddressToAccessList", "Call", "Finalise"}

\* The system call happens at most once, exactly when the block declares a
\* beacon root, and before every transaction call frame.
BeaconCallOccurrence ==
    /\ Cardinality(FramesOfPhase("beacon")) <= 1
    /\ pc # "start" =>
         /\ FramesOfPhase("beacon") # {} <=> block.beaconRoot
         /\ sysCall # <<>> <=> block.beaconRoot
    /\ pc = "start" => (FramesOfPhase("beacon") = {} /\ sysCall = <<>>)
    /\ \A b \in FramesOfPhase("beacon") :
         \A k \in 1..Len(frames) : frames[k].phase # "beacon" => b < k
    /\ sysCall # <<>> =>
         \A name \in BeaconSteps : Cardinality(StepsNamed(name)) = 1

\* C17 (as stated): the beacon-root system call is performed at most once per
\* run, exactly when the block declares a beacon root, before any transaction
\* call frame; within it the call is invoked first, then the beacon-roots
\* storage address is marked in the access list, then the state is finalized.
C17_BeaconCallThenMark ==
    /\ BeaconCallOccurrence
    /\ sysCall # <<>> =>
         /\ StepAt("Call") < StepAt("AddAddressToAccessList")
         /\ StepAt("AddAddressToAccessList") < StepAt("Finalise")

\* C17 (amended): as above, but within the system call the beacon-roots
\* storage address is marked in the access list first, then the call is
\* invoked, then the state is finalized.
C17_BeaconMarkThenCall ==
    /\ BeaconCallOccurrence
    /\ sysCall # <<>> =>
         /\ StepAt("AddAddressToAccessList") < StepAt("Call")
         /\ StepAt("Call") < StepAt("Finalise")

C17_Witness ==
    /\ pc = "done"
    /\ block.beaconRoot
    /\ NTxs = 2
    /\ sysCall # <<>>
    /\ Len(frames) >= 3
    /\ frames[1].phase = "beacon"

\* The AA transactions of the block from which no message can be built.
MalformedAATxs == { t \in 1..NTxs : IsAA(t) /\ block.txs[t].msgErr }

\* C18: when TransactionToMessage fails for an AA transaction, neither the
\* validation phase nor the execution phase invokes a call frame of that
\* transaction, and Process aborts with the error wrapped with the
\* transaction's block index and hash, as for a legacy transaction: a run that
\* got past the validation loop has no malformed AA transaction, and an abort
\* on a message-construction error carries index and hash of its transaction.
C18_MessageError ==
    /\ \A t \in MalformedAATxs : FramesOf(t, {"nonce", "deployer", "self",
                                              "paymaster", "exec", "postop"}) = {}
    /\ pc \in {"execution", "legacy", "finalize", "done"} => MalformedAATxs = {}
    /\ (pc = "error" /\ ret.err.msg = ErrMessage) =>
         /\ ret.err.wrapped
         /\ ret.err.index + 1 \in 1..NTxs
         /\ block.txs[ret.err.index + 1].msgErr
         /\ ret.err.hash = TxHash(ret.err.index + 1)

RECURSIVE SumGasUsed(_)
SumGasUsed(rs) == IF rs = <<>> THEN 0 ELSE Head(rs).GasUsed + SumGasUsed(Tail(rs))

\* The gas the frames of a phase drew from the pool.
RECURSIVE DrawnFrom(_, _)
DrawnFrom(k, phases) ==
    IF k = 0 THEN 0
    ELSE (IF frames[k].phase \in phases
          THEN frames[k].gpBefore - frames[k].gpAfter ELSE 0)
         + DrawnFrom(k - 1, phases)

RECURSIVE EmittedLogs(_, _)
EmittedLogs(k, t) ==
    IF k = 0 THEN <<>>
    ELSE EmittedLogs(k - 1, t)
         \o (IF frames[k].tx = t /\ frames[k].emits THEN <<LogOf(t, k)>> ELSE <<>>)

\* C20: receipt logs are transaction-scoped: every receipt, legacy or AA,
\* holds exactly the logs that the call frames of its own transaction emitted,
\* in emission order, and no log of another transaction's frame.
C20_LogsScoped ==
    \A k \in 1..Len(receipts) :
        receipts[k].Logs = EmittedLogs(Len(frames), receipts[k].ofTx)

====
